---- MODULE Spec2Model ----
(***************************************************************************)
(* Model of pkg/certmaker/certmaker.go: the KMS configuration validator,   *)
(* the KMS provider gateway (InitKMS), the certificate writer               *)
(* (WriteCertificateToFile) and the chain orchestrator                      *)
(* (CreateCertificates).                                                    *)
(*                                                                         *)
(* A Go string that the code parses is a sequence of one-character         *)
(* strings, so that HasPrefix, Index, Split, Contains and TrimSpace are      *)
(* computed character by character as the Go library computes them.         *)
(* A Go error is the chain of its wrapped frames, outermost first; nil is    *)
(* the empty chain.                                                         *)
(***************************************************************************)
EXTENDS Integers, Sequences, FiniteSets, TLC

VARIABLES
    config,     \* the KMSConfig argument of the operation under way
    args,       \* the remaining arguments of the operation under way
    pc,         \* position of the (single) caller in the operation
    locals,     \* CreateCertificates' locals that outlive a stage
    ret,        \* what the operation returned: [sv, err]
    env,        \* the process environment (os.Setenv / provider reads)
    fs,         \* the filesystem: path -> file
    stdout,     \* lines printed by fmt.Printf
    calls,      \* the external calls made so far, in order
    kms,        \* the provider's keys: key identifier -> key type
    threads     \* concurrent InitKMS callers: id -> thread record

vars == <<config, args, pc, locals, ret, env, fs, stdout, calls, kms, threads>>

(***************************************************************************)
(* String literals of the code and the strings the inputs are drawn from.   *)
(***************************************************************************)
\* ""
Empty ==
    <<>>
\* "arn:aws:kms:"
lit_arn_prefix ==
    <<"a", "r", "n", ":", "a", "w", "s", ":", "k", "m", "s", ":">>
\* "alias/"
lit_alias_prefix ==
    <<"a", "l", "i", "a", "s", "/">>
\* ":"
lit_colon ==
    <<":">>
\* "/"
lit_slash ==
    <<"/">>
\* "projects/"
lit_projects ==
    <<"p", "r", "o", "j", "e", "c", "t", "s", "/">>
\* "/locations/"
lit_locations ==
    <<"/", "l", "o", "c", "a", "t", "i", "o", "n", "s", "/">>
\* "/keyRings/"
lit_keyRings ==
    <<"/", "k", "e", "y", "R", "i", "n", "g", "s", "/">>
\* "/cryptoKeys/"
lit_cryptoKeys ==
    <<"/", "c", "r", "y", "p", "t", "o", "K", "e", "y", "s", "/">>
\* "/cryptoKeyVersions/"
lit_cryptoKeyVersions ==
    <<"/", "c", "r", "y", "p", "t", "o", "K", "e", "y", "V", "e", "r", "s", "i", "o", "n", "s", "/">>
\* "azurekms:name="
lit_azure_prefix ==
    <<"a", "z", "u", "r", "e", "k", "m", "s", ":", "n", "a", "m", "e", "=">>
\* "name="
lit_name_eq ==
    <<"n", "a", "m", "e", "=">>
\* ";vault="
lit_vault_sep ==
    <<";", "v", "a", "u", "l", "t", "=">>
\* "transit"
lit_transit ==
    <<"t", "r", "a", "n", "s", "i", "t">>
\* "keys"
lit_keys ==
    <<"k", "e", "y", "s">>
\* "awskms:///"
lit_awskms_scheme ==
    <<"a", "w", "s", "k", "m", "s", ":", "/", "/", "/">>
\* "gcpkms://"
lit_gcpkms_scheme ==
    <<"g", "c", "p", "k", "m", "s", ":", "/", "/">>
\* "azurekms://"
lit_azurekms_scheme ==
    <<"a", "z", "u", "r", "e", "k", "m", "s", ":", "/", "/">>
\* ".vault.azure.net/"
lit_vault_azure_net ==
    <<".", "v", "a", "u", "l", "t", ".", "a", "z", "u", "r", "e", ".", "n", "e", "t", "/">>
\* "hashivault://"
lit_hashivault_scheme ==
    <<"h", "a", "s", "h", "i", "v", "a", "u", "l", "t", ":", "/", "/">>
\* "*"
lit_star ==
    <<"*">>
\* "https://login.microsoftonline.com/"
lit_azure_authority ==
    <<"h", "t", "t", "p", "s", ":", "/", "/", "l", "o", "g", "i", "n", ".", "m", "i", "c", "r", "o", "s", "o", "f", "t", "o", "n", "l", "i", "n", "e", ".", "c", "o", "m", "/">>
\* "us"
region_us ==
    <<"u", "s">>
\* "eu"
region_eu ==
    <<"e", "u">>
\* "a.json"
creds_a ==
    <<"a", ".", "j", "s", "o", "n">>
\* "ta"
tenant_a ==
    <<"t", "a">>
\* "s.a"
token_a ==
    <<"s", ".", "a">>
\* "s.b"
token_b ==
    <<"s", ".", "b">>
\* "http://a"
addr_a ==
    <<"h", "t", "t", "p", ":", "/", "/", "a">>
\* "http://b"
addr_b ==
    <<"h", "t", "t", "p", ":", "/", "/", "b">>
\* "arn:aws:kms:us:1:key/k"
aws_arn_us ==
    <<"a", "r", "n", ":", "a", "w", "s", ":", "k", "m", "s", ":", "u", "s", ":", "1", ":", "k", "e", "y", "/", "k">>
\* "arn:aws:kms:eu:1:key/k"
aws_arn_eu ==
    <<"a", "r", "n", ":", "a", "w", "s", ":", "k", "m", "s", ":", "e", "u", ":", "1", ":", "k", "e", "y", "/", "k">>
\* "arn:aws:kms:us:1"
aws_arn_short ==
    <<"a", "r", "n", ":", "a", "w", "s", ":", "k", "m", "s", ":", "u", "s", ":", "1">>
\* "alias/r"
aws_alias_r ==
    <<"a", "l", "i", "a", "s", "/", "r">>
\* "alias/i"
aws_alias_i ==
    <<"a", "l", "i", "a", "s", "/", "i">>
\* "alias/l"
aws_alias_l ==
    <<"a", "l", "i", "a", "s", "/", "l">>
\* "alias/"
aws_alias_empty ==
    <<"a", "l", "i", "a", "s", "/">>
\* "key-1"
aws_bare ==
    <<"k", "e", "y", "-", "1">>
\* "projects/p/locations/l/keyRings/r/cryptoKeys/k/cryptoKeyVersions/1"
gcp_full ==
    <<"p", "r", "o", "j", "e", "c", "t", "s", "/", "p", "/", "l", "o", "c", "a", "t", "i", "o", "n", "s", "/", "l", "/", "k", "e", "y", "R", "i", "n", "g", "s", "/", "r", "/", "c", "r", "y", "p", "t", "o", "K", "e", "y", "s", "/", "k", "/", "c", "r", "y", "p", "t", "o", "K", "e", "y", "V", "e", "r", "s", "i", "o", "n", "s", "/", "1">>
\* "x/cryptoKeyVersions/1/cryptoKeys/k/keyRings/r/locations/l/projects/p"
gcp_reordered ==
    <<"x", "/", "c", "r", "y", "p", "t", "o", "K", "e", "y", "V", "e", "r", "s", "i", "o", "n", "s", "/", "1", "/", "c", "r", "y", "p", "t", "o", "K", "e", "y", "s", "/", "k", "/", "k", "e", "y", "R", "i", "n", "g", "s", "/", "r", "/", "l", "o", "c", "a", "t", "i", "o", "n", "s", "/", "l", "/", "p", "r", "o", "j", "e", "c", "t", "s", "/", "p">>
\* "projects/p/locations/l/keyRings/r/cryptoKeys/k"
gcp_no_version ==
    <<"p", "r", "o", "j", "e", "c", "t", "s", "/", "p", "/", "l", "o", "c", "a", "t", "i", "o", "n", "s", "/", "l", "/", "k", "e", "y", "R", "i", "n", "g", "s", "/", "r", "/", "c", "r", "y", "p", "t", "o", "K", "e", "y", "s", "/", "k">>
\* "p/locations/l/keyRings/r/cryptoKeys/k/cryptoKeyVersions/1"
gcp_no_projects ==
    <<"p", "/", "l", "o", "c", "a", "t", "i", "o", "n", "s", "/", "l", "/", "k", "e", "y", "R", "i", "n", "g", "s", "/", "r", "/", "c", "r", "y", "p", "t", "o", "K", "e", "y", "s", "/", "k", "/", "c", "r", "y", "p", "t", "o", "K", "e", "y", "V", "e", "r", "s", "i", "o", "n", "s", "/", "1">>
\* "azurekms:name=k;vault=v"
az_full ==
    <<"a", "z", "u", "r", "e", "k", "m", "s", ":", "n", "a", "m", "e", "=", "k", ";", "v", "a", "u", "l", "t", "=", "v">>
\* "azurekms:name=;vault=v"
az_no_name ==
    <<"a", "z", "u", "r", "e", "k", "m", "s", ":", "n", "a", "m", "e", "=", ";", "v", "a", "u", "l", "t", "=", "v">>
\* "azurekms:name= ;vault=v"
az_blank_name ==
    <<"a", "z", "u", "r", "e", "k", "m", "s", ":", "n", "a", "m", "e", "=", " ", ";", "v", "a", "u", "l", "t", "=", "v">>
\* "azurekms:name=k;vault="
az_no_vault_value ==
    <<"a", "z", "u", "r", "e", "k", "m", "s", ":", "n", "a", "m", "e", "=", "k", ";", "v", "a", "u", "l", "t", "=">>
\* "azurekms:name=k;vault= "
az_blank_vault ==
    <<"a", "z", "u", "r", "e", "k", "m", "s", ":", "n", "a", "m", "e", "=", "k", ";", "v", "a", "u", "l", "t", "=", " ">>
\* "azurekms:name=k"
az_no_vault ==
    <<"a", "z", "u", "r", "e", "k", "m", "s", ":", "n", "a", "m", "e", "=", "k">>
\* "name=k;vault=v"
az_bad_prefix ==
    <<"n", "a", "m", "e", "=", "k", ";", "v", "a", "u", "l", "t", "=", "v">>
\* "transit/keys/k"
hv_full ==
    <<"t", "r", "a", "n", "s", "i", "t", "/", "k", "e", "y", "s", "/", "k">>
\* "transit/keys/k/1"
hv_long ==
    <<"t", "r", "a", "n", "s", "i", "t", "/", "k", "e", "y", "s", "/", "k", "/", "1">>
\* "transit/keys/ "
hv_blank_name ==
    <<"t", "r", "a", "n", "s", "i", "t", "/", "k", "e", "y", "s", "/", " ">>
\* "transit/keys/"
hv_no_name ==
    <<"t", "r", "a", "n", "s", "i", "t", "/", "k", "e", "y", "s", "/">>
\* "transit/keys"
hv_short ==
    <<"t", "r", "a", "n", "s", "i", "t", "/", "k", "e", "y", "s">>
\* "secret/keys/k"
hv_bad_prefix ==
    <<"s", "e", "c", "r", "e", "t", "/", "k", "e", "y", "s", "/", "k">>

(***************************************************************************)
(* package strings                                                          *)
(***************************************************************************)
SetMin(S) ==
    CHOOSE x \in S : \A y \in S : x <= y

\* strings.HasPrefix
HasPrefix(s, prefix) ==
    /\ Len(s) >= Len(prefix)
    /\ SubSeq(s, 1, Len(prefix)) = prefix

\* strings.Index: the 0-based index of the first instance of substr, or -1
Index(s, substr) ==
    LET hits == {i \in 0..(Len(s) - Len(substr)) :
                    SubSeq(s, i + 1, i + Len(substr)) = substr}
    IN  IF hits = {} THEN -1 ELSE SetMin(hits)

\* strings.Contains
Contains(s, substr) ==
    Index(s, substr) >= 0

\* the Go slice expression s[lo:hi] and s[lo:], 0-based
Slice(s, lo, hi) ==
    SubSeq(s, lo + 1, hi)

SliceFrom(s, lo) ==
    SubSeq(s, lo + 1, Len(s))

\* strings.Split with a non-empty separator: always at least one element
RECURSIVE Split(_, _)
Split(s, sep) ==
    LET i == Index(s, sep)
    IN  IF i < 0 THEN <<s>>
        ELSE <<Slice(s, 0, i)>> \o Split(SliceFrom(s, i + Len(sep)), sep)

\* strings.TrimPrefix
TrimPrefix(s, prefix) ==
    IF HasPrefix(s, prefix) THEN SliceFrom(s, Len(prefix)) ELSE s

\* unicode.IsSpace on the characters of the alphabet
IsSpace(c) ==
    c \in {" ", "\t", "\n", "\r"}

RECURSIVE TrimLeft(_)
TrimLeft(s) ==
    IF s # <<>> /\ IsSpace(Head(s)) THEN TrimLeft(Tail(s)) ELSE s

RECURSIVE TrimRight(_)
TrimRight(s) ==
    IF s # <<>> /\ IsSpace(s[Len(s)]) THEN TrimRight(SubSeq(s, 1, Len(s) - 1)) ELSE s

\* strings.TrimSpace
TrimSpace(s) ==
    TrimRight(TrimLeft(s))

(***************************************************************************)
(* Errors: fmt.Errorf builds one frame; %w puts it in front of the chain it  *)
(* wraps.  keyType is the %s argument naming a config field, vals the other  *)
(* %s arguments.                                                            *)
(***************************************************************************)
Nil ==
    <<>>

Errorf(fmt, keyType, vals) ==
    <<[fmt |-> fmt, keyType |-> keyType, vals |-> vals]>>

Wrapf(fmt, err) ==
    <<[fmt |-> fmt, keyType |-> "", vals |-> <<>>]>> \o err

\* errors.Unwrap to the innermost frame
RootCause(err) ==
    err[Len(err)]

(***************************************************************************)
(* KMSConfig.Options: a Go map, or the nil map.  The map is its set of       *)
(* <<key, value>> pairs; a lookup of a missing key, or in the nil map, gives  *)
(* the empty string.                                                        *)
(***************************************************************************)
NilOptions ==
    [isNil |-> TRUE, kv |-> {}]

MakeOptions(pairs) ==
    [isNil |-> FALSE, kv |-> pairs]

Lookup(options, key) ==
    IF \E p \in options.kv : p[1] = key
    THEN (CHOOSE p \in options.kv : p[1] = key)[2]
    ELSE Empty

(***************************************************************************)
(* ValidateKMSConfig and its per-provider key-identifier validators          *)
(***************************************************************************)
\* validateAWSKeyID without the comparison of the ARN's region
validateAWSKeyID_anyRegion(keyID, keyType, awsRegion) ==
    IF keyID = Empty THEN Nil
    ELSE IF HasPrefix(keyID, lit_arn_prefix) THEN
        IF Len(Split(keyID, lit_colon)) < 6
        THEN Errorf("invalid AWS KMS ARN format for %s", keyType, <<>>)
        ELSE Nil
    ELSE IF HasPrefix(keyID, lit_alias_prefix) THEN
        IF TrimPrefix(keyID, lit_alias_prefix) = Empty
        THEN Errorf("alias name cannot be empty for %s", keyType, <<>>)
        ELSE Nil
    ELSE Errorf("awskms %s must start with 'arn:aws:kms:' or 'alias/'", keyType, <<>>)

validateAWSKeyID(keyID, keyType, awsRegion) ==
    IF keyID = Empty THEN Nil
    ELSE IF HasPrefix(keyID, lit_arn_prefix) THEN
        LET parts == Split(keyID, lit_colon)
        IN  IF Len(parts) < 6
            THEN Errorf("invalid AWS KMS ARN format for %s", keyType, <<>>)
            ELSE IF parts[4] # awsRegion
            THEN Errorf("region in ARN (%s) does not match configured region (%s)",
                        "", <<parts[4], awsRegion>>)
            ELSE Nil
    ELSE IF HasPrefix(keyID, lit_alias_prefix) THEN
        IF TrimPrefix(keyID, lit_alias_prefix) = Empty
        THEN Errorf("alias name cannot be empty for %s", keyType, <<>>)
        ELSE Nil
    ELSE Errorf("awskms %s must start with 'arn:aws:kms:' or 'alias/'", keyType, <<>>)

requiredComponents ==
    << [component |-> lit_projects,          message |-> "must start with 'projects/'"],
       [component |-> lit_locations,         message |-> "must contain '/locations/'"],
       [component |-> lit_keyRings,          message |-> "must contain '/keyRings/'"],
       [component |-> lit_cryptoKeys,        message |-> "must contain '/cryptoKeys/'"],
       [component |-> lit_cryptoKeyVersions, message |-> "must contain '/cryptoKeyVersions/'"] >>

validateGCPKeyID(keyID, keyType) ==
    IF keyID = Empty THEN Nil
    ELSE LET missing == {i \in DOMAIN requiredComponents :
                            ~Contains(keyID, requiredComponents[i].component)}
         IN  IF missing = {} THEN Nil
             ELSE Errorf("gcpkms %s " \o requiredComponents[SetMin(missing)].message,
                         keyType, <<>>)

validateAzureKeyID(keyID, keyType) ==
    IF keyID = Empty THEN Nil
    ELSE IF ~HasPrefix(keyID, lit_azure_prefix)
    THEN Errorf("azurekms %s must start with 'azurekms:name='", keyType, <<>>)
    ELSE LET nameStart  == Index(keyID, lit_name_eq) + 5
             vaultIndex == Index(keyID, lit_vault_sep)
         IN  IF vaultIndex = -1
             THEN Errorf("azurekms %s must contain ';vault=' parameter", keyType, <<>>)
             ELSE IF TrimSpace(Slice(keyID, nameStart, vaultIndex)) = Empty
             THEN Errorf("key name cannot be empty for %s", keyType, <<>>)
             ELSE IF TrimSpace(SliceFrom(keyID, vaultIndex + 7)) = Empty
             THEN Errorf("vault name cannot be empty for %s", keyType, <<>>)
             ELSE Nil

validateHashiVaultKeyID(keyID, keyType) ==
    IF keyID = Empty THEN Nil
    ELSE LET parts == Split(keyID, lit_slash)
         IN  IF Len(parts) < 3
             THEN Errorf("hashivault %s must be in format: transit/keys/keyname", keyType, <<>>)
             ELSE IF parts[1] # lit_transit \/ parts[2] # lit_keys
             THEN Errorf("hashivault %s must start with 'transit/keys/'", keyType, <<>>)
             ELSE IF parts[3] = Empty
             THEN Errorf("key name cannot be empty for %s", keyType, <<>>)
             ELSE Nil

\* the first non-nil error of the three validations, in the order the code
\* runs them: RootKeyID, IntermediateKeyID, LeafKeyID
FirstError(errs) ==
    IF errs[1] # Nil THEN errs[1]
    ELSE IF errs[2] # Nil THEN errs[2]
    ELSE errs[3]

\* lines 531-539: both key IDs must be specified
RequireKeyIDs(cfg) ==
    IF cfg.RootKeyID = Empty THEN Errorf("RootKeyID must be specified", "", <<>>)
    ELSE IF cfg.LeafKeyID = Empty THEN Errorf("LeafKeyID must be specified", "", <<>>)
    ELSE Nil

ValidateAWS(cfg) ==
    IF cfg.Options.isNil \/ Lookup(cfg.Options, "aws-region") = Empty
    THEN Errorf("aws-region is required for AWS KMS", "", <<>>)
    ELSE LET region == Lookup(cfg.Options, "aws-region")
         IN  FirstError(<<validateAWSKeyID(cfg.RootKeyID, "RootKeyID", region),
                          validateAWSKeyID(cfg.IntermediateKeyID, "IntermediateKeyID", region),
                          validateAWSKeyID(cfg.LeafKeyID, "LeafKeyID", region)>>)

ValidateGCP(cfg) ==
    IF cfg.Options.isNil \/ Lookup(cfg.Options, "gcp-credentials-file") = Empty
    THEN Errorf("gcp-credentials-file is required for GCP KMS", "", <<>>)
    ELSE FirstError(<<validateGCPKeyID(cfg.RootKeyID, "RootKeyID"),
                      validateGCPKeyID(cfg.IntermediateKeyID, "IntermediateKeyID"),
                      validateGCPKeyID(cfg.LeafKeyID, "LeafKeyID")>>)

ValidateAzure(cfg) ==
    IF cfg.Options.isNil
    THEN Errorf("options map is required for Azure KMS", "", <<>>)
    ELSE IF Lookup(cfg.Options, "azure-tenant-id") = Empty
    THEN Errorf("azure-tenant-id is required for Azure KMS", "", <<>>)
    ELSE FirstError(<<validateAzureKeyID(cfg.RootKeyID, "RootKeyID"),
                      validateAzureKeyID(cfg.IntermediateKeyID, "IntermediateKeyID"),
                      validateAzureKeyID(cfg.LeafKeyID, "LeafKeyID")>>)

ValidateHashiVault(cfg) ==
    IF cfg.Options.isNil
    THEN Errorf("options map is required for HashiVault KMS", "", <<>>)
    ELSE IF Lookup(cfg.Options, "vault-token") = Empty
    THEN Errorf("vault-token is required for HashiVault KMS", "", <<>>)
    ELSE IF Lookup(cfg.Options, "vault-address") = Empty
    THEN Errorf("vault-address is required for HashiVault KMS", "", <<>>)
    ELSE FirstError(<<validateHashiVaultKeyID(cfg.RootKeyID, "RootKeyID"),
                      validateHashiVaultKeyID(cfg.IntermediateKeyID, "IntermediateKeyID"),
                      validateHashiVaultKeyID(cfg.LeafKeyID, "LeafKeyID")>>)

\* the switch on config.Type, lines 378-529
ValidateProvider(cfg) ==
    CASE cfg.Type = "awskms"     -> ValidateAWS(cfg)
      [] cfg.Type = "gcpkms"     -> ValidateGCP(cfg)
      [] cfg.Type = "azurekms"   -> ValidateAzure(cfg)
      [] cfg.Type = "hashivault" -> ValidateHashiVault(cfg)
      [] OTHER -> Errorf("unsupported KMS type: %s", "", <<>>)

\* ValidateKMSConfig with the required-field check moved in front of the
\* per-provider checks
ValidateKMSConfig_requiredFirst(cfg) ==
    IF cfg.Type = ""
    THEN Errorf("KMS type cannot be empty", "", <<>>)
    ELSE IF RequireKeyIDs(cfg) # Nil
    THEN RequireKeyIDs(cfg)
    ELSE ValidateProvider(cfg)

ValidateKMSConfig(cfg) ==
    IF cfg.Type = ""
    THEN Errorf("KMS type cannot be empty", "", <<>>)
    ELSE IF ValidateProvider(cfg) # Nil
    THEN ValidateProvider(cfg)
    ELSE RequireKeyIDs(cfg)

(***************************************************************************)
(* Signers and the KMS provider (kms.Get)                                    *)
(***************************************************************************)
\* the nil signature.SignerVerifier
NoSigner ==
    [isNil |-> TRUE, key |-> Empty, crypto |-> FALSE]

\* a signer bound to the key a reference names; crypto: whether it also
\* implements CryptoSignerVerifier
Signer(ref, crypto) ==
    [isNil |-> FALSE, key |-> ref, crypto |-> crypto]

\* what kms.Get can answer: an error, a nil signer without error, a signer
\* that lacks CryptoSigner, a signer that has it
ProviderOutcomes ==
    {"error", "nil", "plain", "crypto"}

ProviderError ==
    Errorf("kms: provider error", "", <<>>)

(***************************************************************************)
(* InitKMS                                                                  *)
(***************************************************************************)
KnownTypes ==
    {"awskms", "gcpkms", "azurekms", "hashivault"}

\* lines 92-101: the azurekms:name=...;vault=... short form is rewritten to
\* a vault URI, anything else is passed through
AzureKeyURI(rootKeyID) ==
    IF HasPrefix(rootKeyID, lit_azure_prefix)
    THEN LET nameStart  == Index(rootKeyID, lit_name_eq) + 5
             vaultIndex == Index(rootKeyID, lit_vault_sep)
         IN  IF vaultIndex # -1
             THEN LET keyName   == TrimSpace(Slice(rootKeyID, nameStart, vaultIndex))
                      vaultName == TrimSpace(SliceFrom(rootKeyID, vaultIndex + 7))
                  IN  lit_azurekms_scheme \o vaultName \o lit_vault_azure_net \o keyName
             ELSE rootKeyID
    ELSE rootKeyID

\* the reference handed to kms.Get
InitKMSRef(cfg) ==
    CASE cfg.Type = "awskms"     -> lit_awskms_scheme \o cfg.RootKeyID
      [] cfg.Type = "gcpkms"     -> lit_gcpkms_scheme \o cfg.RootKeyID
      [] cfg.Type = "azurekms"   -> AzureKeyURI(cfg.RootKeyID)
      [] cfg.Type = "hashivault" -> lit_hashivault_scheme \o cfg.RootKeyID
      [] OTHER -> Empty

\* one os.Setenv call, made only when cond holds
SetenvIf(cond, name, value) ==
    IF cond THEN << <<name, value>> >> ELSE <<>>

\* InitKMSSetenv that leaves AWS_REGION as it finds it
InitKMSSetenv_noRegion(cfg) ==
    CASE cfg.Type = "gcpkms" ->
            SetenvIf(Lookup(cfg.Options, "gcp-credentials-file") # Empty,
                     "GCP_CREDENTIALS_FILE", Lookup(cfg.Options, "gcp-credentials-file"))
      [] cfg.Type = "azurekms" ->
            LET tenant == ~cfg.Options.isNil /\ Lookup(cfg.Options, "azure-tenant-id") # Empty
            IN  SetenvIf(tenant, "AZURE_TENANT_ID", Lookup(cfg.Options, "azure-tenant-id"))
                \o SetenvIf(tenant, "AZURE_ADDITIONALLY_ALLOWED_TENANTS", lit_star)
                \o SetenvIf(TRUE, "AZURE_AUTHORITY_HOST", lit_azure_authority)
      [] cfg.Type = "hashivault" ->
            SetenvIf(~cfg.Options.isNil /\ Lookup(cfg.Options, "vault-token") # Empty,
                     "VAULT_TOKEN", Lookup(cfg.Options, "vault-token"))
            \o SetenvIf(~cfg.Options.isNil /\ Lookup(cfg.Options, "vault-address") # Empty,
                        "VAULT_ADDR", Lookup(cfg.Options, "vault-address"))
      [] OTHER -> <<>>

\* the os.Setenv calls InitKMS makes for a config, in order
InitKMSSetenv(cfg) ==
    CASE cfg.Type = "awskms" ->
            SetenvIf(Lookup(cfg.Options, "aws-region") # Empty,
                     "AWS_REGION", Lookup(cfg.Options, "aws-region"))
      [] cfg.Type = "gcpkms" ->
            SetenvIf(Lookup(cfg.Options, "gcp-credentials-file") # Empty,
                     "GCP_CREDENTIALS_FILE", Lookup(cfg.Options, "gcp-credentials-file"))
      [] cfg.Type = "azurekms" ->
            LET tenant == ~cfg.Options.isNil /\ Lookup(cfg.Options, "azure-tenant-id") # Empty
            IN  SetenvIf(tenant, "AZURE_TENANT_ID", Lookup(cfg.Options, "azure-tenant-id"))
                \o SetenvIf(tenant, "AZURE_ADDITIONALLY_ALLOWED_TENANTS", lit_star)
                \o SetenvIf(TRUE, "AZURE_AUTHORITY_HOST", lit_azure_authority)
      [] cfg.Type = "hashivault" ->
            SetenvIf(~cfg.Options.isNil /\ Lookup(cfg.Options, "vault-token") # Empty,
                     "VAULT_TOKEN", Lookup(cfg.Options, "vault-token"))
            \o SetenvIf(~cfg.Options.isNil /\ Lookup(cfg.Options, "vault-address") # Empty,
                        "VAULT_ADDR", Lookup(cfg.Options, "vault-address"))
      [] OTHER -> <<>>

\* the message that wraps a provider error, per provider
InitKMSFailure(cfg) ==
    CASE cfg.Type = "awskms"     -> "failed to initialize AWS KMS: %w"
      [] cfg.Type = "gcpkms"     -> "failed to initialize GCP KMS: %w"
      [] cfg.Type = "azurekms"   -> "failed to initialize Azure KMS: %w"
      [] cfg.Type = "hashivault" -> "failed to initialize HashiVault KMS: %w"
      [] OTHER -> ""

\* What one InitKMS call does and returns: sv and err are returned, setenv are
\* its os.Setenv calls and refs the references it hands to kms.Get, in order.
InitKMSReturn(sv, err, setenv, refs) ==
    [sv |-> sv, err |-> err, setenv |-> setenv, refs |-> refs]

\* lines 67-141: the dispatch on config.Type, after validation
InitKMSDispatch(cfg, outcome) ==
    IF cfg.Type \notin KnownTypes
    THEN InitKMSReturn(NoSigner, Errorf("unsupported KMS type: %s", "", <<>>), <<>>, <<>>)
    ELSE LET ref    == InitKMSRef(cfg)
             setenv == InitKMSSetenv(cfg)
         IN  CASE outcome = "error" ->
                    InitKMSReturn(NoSigner, Wrapf(InitKMSFailure(cfg), ProviderError),
                                  setenv, <<ref>>)
               [] outcome = "nil" ->
                    InitKMSReturn(NoSigner, Errorf("KMS returned nil signer", "", <<>>),
                                  setenv, <<ref>>)
               [] OTHER ->
                    InitKMSReturn(Signer(cfg.RootKeyID, outcome = "crypto"), Nil,
                                  setenv, <<ref>>)

\* InitKMS without its call of ValidateKMSConfig
InitKMS_unvalidated(cfg, outcome) ==
    InitKMSDispatch(cfg, outcome)

InitKMS(cfg, outcome) ==
    IF ValidateKMSConfig(cfg) # Nil
    THEN InitKMSReturn(NoSigner,
                       Wrapf("invalid KMS configuration: %w", ValidateKMSConfig(cfg)),
                       <<>>, <<>>)
    ELSE InitKMSDispatch(cfg, outcome)

(***************************************************************************)
(* The process environment and the trace of external calls                   *)
(***************************************************************************)
EnvVars ==
    {"AWS_REGION", "GCP_CREDENTIALS_FILE", "AZURE_TENANT_ID",
     "AZURE_ADDITIONALLY_ALLOWED_TENANTS", "AZURE_AUTHORITY_HOST",
     "VAULT_TOKEN", "VAULT_ADDR"}

\* no variable set
EmptyEnv ==
    [v \in EnvVars |-> Empty]

\* os.Setenv, call after call
RECURSIVE ApplySetenv(_, _)
ApplySetenv(e, setenv) ==
    IF setenv = <<>> THEN e
    ELSE ApplySetenv([e EXCEPT ![Head(setenv)[1]] = Head(setenv)[2]], Tail(setenv))

SetenvCall(by, name, value) ==
    [op |-> "Setenv", by |-> by, name |-> name, value |-> value]

\* a kms.Get call, with the environment the provider reads while it runs
GetCall(by, ref, seen) ==
    [op |-> "kms.Get", by |-> by, ref |-> ref, seen |-> seen]

\* the calls of one InitKMS that runs alone, from environment e
InitKMSCalls(by, r, e) ==
    [i \in 1..Len(r.setenv) |-> SetenvCall(by, r.setenv[i][1], r.setenv[i][2])]
    \o [i \in 1..Len(r.refs) |-> GetCall(by, r.refs[i], ApplySetenv(e, r.setenv))]

CallsOf(op) ==
    {i \in DOMAIN calls : calls[i].op = op}

(***************************************************************************)
(* Inputs of the validator and gateway: configs of every provider type with  *)
(* well-formed and malformed key identifiers and options                     *)
(***************************************************************************)
Types ==
    {"", "awskms", "gcpkms", "azurekms", "hashivault", "pkcs11"}

KeyPool(type) ==
    CASE type = "awskms" ->
            {Empty, aws_arn_us, aws_arn_eu, aws_arn_short, aws_alias_r,
             aws_alias_empty, aws_bare}
      [] type = "gcpkms" ->
            {Empty, gcp_full, gcp_reordered, gcp_no_version, gcp_no_projects}
      [] type = "azurekms" ->
            {Empty, az_full, az_no_name, az_blank_name, az_no_vault_value,
             az_blank_vault, az_no_vault, az_bad_prefix}
      [] type = "hashivault" ->
            {Empty, hv_full, hv_long, hv_blank_name, hv_no_name, hv_short,
             hv_bad_prefix}
      [] OTHER -> {Empty, aws_alias_r, hv_full}

OptionPool(type) ==
    CASE type = "awskms" ->
            {NilOptions, MakeOptions({}),
             MakeOptions({<<"aws-region", Empty>>}),
             MakeOptions({<<"aws-region", region_us>>}),
             MakeOptions({<<"aws-region", region_eu>>})}
      [] type = "gcpkms" ->
            {NilOptions, MakeOptions({}),
             MakeOptions({<<"gcp-credentials-file", Empty>>}),
             MakeOptions({<<"gcp-credentials-file", creds_a>>})}
      [] type = "azurekms" ->
            {NilOptions, MakeOptions({}),
             MakeOptions({<<"azure-tenant-id", Empty>>}),
             MakeOptions({<<"azure-tenant-id", tenant_a>>})}
      [] type = "hashivault" ->
            {NilOptions, MakeOptions({}),
             MakeOptions({<<"vault-token", token_a>>}),
             MakeOptions({<<"vault-address", addr_a>>}),
             MakeOptions({<<"vault-token", Empty>>, <<"vault-address", addr_a>>}),
             MakeOptions({<<"vault-token", token_a>>, <<"vault-address", addr_a>>})}
      [] OTHER -> {NilOptions, MakeOptions({<<"aws-region", region_us>>})}

KMSConfig(type, root, intermediate, leaf, options) ==
    [CommonName |-> "fulcio", Type |-> type, RootKeyID |-> root,
     IntermediateKeyID |-> intermediate, LeafKeyID |-> leaf, Options |-> options]

ValidateConfigs ==
    UNION {{KMSConfig(t, r, i, l, o) :
                r \in KeyPool(t), i \in KeyPool(t), l \in KeyPool(t), o \in OptionPool(t)} :
           t \in Types}

\* an environment left behind by earlier work in the process
StaleEnv ==
    [EmptyEnv EXCEPT !["AWS_REGION"] = region_eu, !["VAULT_TOKEN"] = token_b]

(***************************************************************************)
(* Values of the variables an operation does not use                         *)
(***************************************************************************)
NoLocals ==
    [op |-> "none"]

NoReturn ==
    [sv |-> NoSigner, err |-> Nil]

NoThreads ==
    <<>>

NoKeys ==
    <<>>

EmptyFS ==
    [p \in {} |-> 0]

(***************************************************************************)
(* Specification SpecValidate: one call of ValidateKMSConfig or of InitKMS   *)
(* on any config of the pool.                                               *)
(***************************************************************************)
InitValidate ==
    /\ config \in ValidateConfigs
    /\ env \in {EmptyEnv, StaleEnv}
    /\ args = [op |-> "validate", env0 |-> env]
    /\ pc = "start"
    /\ locals = NoLocals
    /\ ret = NoReturn
    /\ fs = EmptyFS
    /\ stdout = <<>>
    /\ calls = <<>>
    /\ kms = NoKeys
    /\ threads = NoThreads

CallValidateKMSConfig ==
    /\ pc = "start"
    /\ pc' = "validated"
    /\ ret' = [sv |-> NoSigner, err |-> ValidateKMSConfig(config)]
    /\ UNCHANGED <<config, args, locals, env, fs, stdout, calls, kms, threads>>

CallInitKMS ==
    /\ pc = "start"
    /\ \E outcome \in ProviderOutcomes :
          LET r == InitKMS(config, outcome)
          IN  /\ ret' = [sv |-> r.sv, err |-> r.err]
              /\ env' = ApplySetenv(env, r.setenv)
              /\ calls' = calls \o InitKMSCalls("main", r, env)
    /\ pc' = "inited"
    /\ UNCHANGED <<config, args, locals, fs, stdout, kms, threads>>

NextValidate ==
    \/ CallValidateKMSConfig
    \/ CallInitKMS

SpecValidate ==
    InitValidate /\ [][NextValidate]_vars

(***************************************************************************)
(* Certificates.  Raw is the DER encoding, the empty sequence when a         *)
(* certificate value was never encoded; the other fields are what the        *)
(* encoding holds.                                                          *)
(***************************************************************************)
\* the nil *x509.Certificate
NilCert ==
    [isNil |-> TRUE, Raw |-> <<>>, IsCA |-> FALSE, subject |-> "", pubKey |-> Empty,
     issuer |-> [subject |-> "", pubKey |-> Empty], signedBy |-> Empty,
     SignatureAlgorithm |-> ""]

\* a certificate for subject and pubKey, issued by issuer (the subject and
\* key of the parent) and signed with the key signedBy
Certificate(raw, isCA, subject, pubKey, issuer, signedBy, sigAlg) ==
    [isNil |-> FALSE, Raw |-> raw, IsCA |-> isCA, subject |-> subject, pubKey |-> pubKey,
     issuer |-> issuer, signedBy |-> signedBy, SignatureAlgorithm |-> sigAlg]

\* what a certificate says of itself as an issuer
IssuerOf(cert) ==
    [subject |-> cert.subject, pubKey |-> cert.pubKey]

\* cert.CheckSignatureFrom(parent) = nil: the signature on cert was made
\* with the key of parent
CheckSignatureFrom(cert, parent) ==
    cert.signedBy = parent.pubKey

(***************************************************************************)
(* The filesystem and WriteCertificateToFile                                 *)
(***************************************************************************)
Paths ==
    {"root.pem", "intermediate.pem", "leaf.pem"}

\* no file at the path
Absent ==
    [exists |-> FALSE, blocks |-> <<>>, torn |-> FALSE]

\* a file holding PEM blocks; torn: a write to it failed part-way
File(blocks, torn) ==
    [exists |-> TRUE, blocks |-> blocks, torn |-> torn]

\* lines 347-350
PemBlock(cert) ==
    [Type |-> "CERTIFICATE", Bytes |-> cert.Raw]

\* lines 358-366
CertType(cert) ==
    IF cert.IsCA
    THEN IF CheckSignatureFrom(cert, cert) THEN "root" ELSE "intermediate"
    ELSE "leaf"

\* what the filesystem does to one call: os.Create fails; pem.Encode fails
\* before or after some bytes reached the file; all goes well
IOOutcomes ==
    {"ok", "create fails", "encode fails", "encode fails torn"}

OSError ==
    Errorf("os: i/o error", "", <<>>)

WriteReturn(err, files, out, created) ==
    [err |-> err, fs |-> files, out |-> out, created |-> created]

\* WriteCertificateToFile with the file created before the certificate is
\* looked at
WriteCertificateToFile_createFirst(cert, filename, files, io) ==
    IF io = "create fails" THEN WriteReturn(OSError, files, <<>>, <<>>)
    ELSE IF cert.isNil
    THEN WriteReturn(Errorf("certificate is nil", "", <<>>),
                     [files EXCEPT ![filename] = File(<<>>, FALSE)], <<>>, <<filename>>)
    ELSE IF Len(cert.Raw) = 0
    THEN WriteReturn(Errorf("certificate has no raw data", "", <<>>),
                     [files EXCEPT ![filename] = File(<<>>, FALSE)], <<>>, <<filename>>)
    ELSE WriteReturn(Nil, [files EXCEPT ![filename] = File(<<PemBlock(cert)>>, FALSE)],
                     <<[certType |-> CertType(cert), filename |-> filename]>>, <<filename>>)

\* WriteCertificateToFile that removes the file again when pem.Encode fails
WriteCertificateToFile_removeOnError(cert, filename, files, io) ==
    IF cert.isNil
    THEN WriteReturn(Errorf("certificate is nil", "", <<>>), files, <<>>, <<>>)
    ELSE IF Len(cert.Raw) = 0
    THEN WriteReturn(Errorf("certificate has no raw data", "", <<>>), files, <<>>, <<>>)
    ELSE IF io = "create fails"
    THEN WriteReturn(OSError, files, <<>>, <<>>)
    ELSE LET saved == <<[certType |-> CertType(cert), filename |-> filename]>>
         IN  IF io \in {"encode fails", "encode fails torn"}
             THEN WriteReturn(OSError, [files EXCEPT ![filename] = Absent],
                              saved, <<filename>>)
             ELSE WriteReturn(Nil,
                              [files EXCEPT ![filename] = File(<<PemBlock(cert)>>, FALSE)],
                              saved, <<filename>>)

\* WriteCertificateToFile(cert, filename) on the filesystem files: the error
\* returned, the filesystem left, the status lines printed and the paths
\* os.Create created or truncated
WriteCertificateToFile(cert, filename, files, io) ==
    IF cert.isNil
    THEN WriteReturn(Errorf("certificate is nil", "", <<>>), files, <<>>, <<>>)
    ELSE IF Len(cert.Raw) = 0
    THEN WriteReturn(Errorf("certificate has no raw data", "", <<>>), files, <<>>, <<>>)
    ELSE IF io = "create fails"
    THEN WriteReturn(OSError, files, <<>>, <<>>)
    ELSE LET saved == <<[certType |-> CertType(cert), filename |-> filename]>>
         IN  CASE io = "encode fails" ->
                    WriteReturn(OSError, [files EXCEPT ![filename] = File(<<>>, FALSE)],
                                saved, <<filename>>)
               [] io = "encode fails torn" ->
                    WriteReturn(OSError, [files EXCEPT ![filename] = File(<<>>, TRUE)],
                                saved, <<filename>>)
               [] OTHER ->
                    WriteReturn(Nil,
                                [files EXCEPT ![filename] = File(<<PemBlock(cert)>>, FALSE)],
                                saved, <<filename>>)

(***************************************************************************)
(* Specification SpecWrite: calls of WriteCertificateToFile, one after the   *)
(* other, on nil, unencoded and encoded certificates.                        *)
(***************************************************************************)
MaxWrites ==
    2

\* the DER encoding of a certificate's fields
DER(isCA, subject, pubKey, issuer, signedBy, sigAlg) ==
    <<[IsCA |-> isCA, subject |-> subject, pubKey |-> pubKey, issuer |-> issuer,
       signedBy |-> signedBy, SignatureAlgorithm |-> sigAlg]>>

Encoded(isCA, subject, pubKey, issuer, signedBy, sigAlg) ==
    Certificate(DER(isCA, subject, pubKey, issuer, signedBy, sigAlg),
                isCA, subject, pubKey, issuer, signedBy, sigAlg)

WriteCerts ==
    LET rootName == [subject |-> "fulcio", pubKey |-> aws_alias_r]
    IN  { NilCert,
          \* a certificate value that was filled in but never encoded
          Certificate(<<>>, TRUE, "fulcio", aws_alias_r, rootName, aws_alias_r, "ECDSA-SHA256"),
          Encoded(TRUE, "fulcio", aws_alias_r, rootName, aws_alias_r, "ECDSA-SHA256"),
          Encoded(TRUE, "fulcio", aws_alias_i, rootName, aws_alias_r, "ECDSA-SHA256"),
          Encoded(FALSE, "fulcio", aws_alias_l, rootName, aws_alias_r, "ECDSA-SHA256") }

\* a file some earlier program left
OldFile ==
    File(<<[Type |-> "CERTIFICATE", Bytes |-> <<"old">>]>>, FALSE)

NoConfig ==
    KMSConfig("", Empty, Empty, Empty, NilOptions)

InitWrite ==
    /\ config = NoConfig
    /\ args = [op |-> "write", n |-> 0]
    /\ pc = "start"
    /\ locals = NoLocals
    /\ ret = NoReturn
    /\ env = EmptyEnv
    /\ fs \in [Paths -> {Absent, OldFile}]
    /\ stdout = <<>>
    /\ calls = <<>>
    /\ kms = NoKeys
    /\ threads = NoThreads

\* one call; args keeps its arguments and the filesystem and output it found
CallWriteCertificateToFile ==
    /\ pc \in {"start", "written"}
    /\ args.n < MaxWrites
    /\ \E cert \in WriteCerts, filename \in Paths, io \in IOOutcomes :
          LET w == WriteCertificateToFile(cert, filename, fs, io)
          IN  /\ args' = [op |-> "write", n |-> args.n + 1, cert |-> cert,
                          filename |-> filename, fs0 |-> fs, stdout0 |-> stdout]
              /\ ret' = [sv |-> NoSigner, err |-> w.err]
              /\ fs' = w.fs
              /\ stdout' = stdout \o w.out
    /\ pc' = "written"
    /\ UNCHANGED <<config, locals, env, calls, kms, threads>>

NextWrite ==
    CallWriteCertificateToFile

SpecWrite ==
    InitWrite /\ [][NextWrite]_vars

(***************************************************************************)
(* Keys held by the provider, signature algorithms, templates and            *)
(* certificate creation                                                     *)
(***************************************************************************)
KeyTypes ==
    {"ECDSA", "RSA"}

\* ca.ToSignatureAlgorithm(signer, crypto.SHA256): the algorithm that fits
\* the type of the signer's key; "" stands for its error
ToSignatureAlgorithm(signer, keyType) ==
    CASE keyType[signer.key] = "ECDSA" -> "ECDSAWithSHA256"
      [] keyType[signer.key] = "RSA"   -> "SHA256WithRSA"
      [] OTHER -> ""

\* the key type a signature algorithm needs (crypto/x509)
KeyTypeOf(sigAlg) ==
    CASE sigAlg = "ECDSAWithSHA256" -> "ECDSA"
      [] sigAlg = "SHA256WithRSA"   -> "RSA"
      [] OTHER -> ""

TemplateError ==
    Errorf("template: error", "", <<>>)

\* ParseTemplate(template, parent, notAfter, publicKey, commonName) on the
\* template of a stage: a CA for root and intermediate, an end entity for
\* leaf; no signature algorithm yet
ParseTemplate(stage, parent, publicKey, commonName) ==
    [IsCA |-> stage \in {"root", "intermediate"}, subject |-> commonName,
     pubKey |-> publicKey, SignatureAlgorithm |-> ""]

SignCall(by, stage, key, sigAlg) ==
    [op |-> "Sign", by |-> by, stage |-> stage, key |-> key, alg |-> sigAlg]

\* x509util.CreateCertificate(template, parent, pub, signer): crypto/x509
\* refuses a template whose SignatureAlgorithm does not fit the type of the
\* signer's key; else the provider signs (and may fail), and the certificate
\* carries the template's fields, parent as issuer and the signer's signature
CreateCertificate(stage, template, issuer, pub, signer, keyType, fault) ==
    IF KeyTypeOf(template.SignatureAlgorithm) # keyType[signer.key]
    THEN [err |-> Errorf("x509: requested SignatureAlgorithm does not match private key type",
                         "", <<>>),
          cert |-> NilCert, calls |-> <<>>]
    ELSE IF fault = "Sign"
    THEN [err |-> ProviderError, cert |-> NilCert,
          calls |-> <<SignCall("main", stage, signer.key, template.SignatureAlgorithm)>>]
    ELSE [err |-> Nil,
          cert |-> Encoded(template.IsCA, template.subject, pub, issuer, signer.key,
                           template.SignatureAlgorithm),
          calls |-> <<SignCall("main", stage, signer.key, template.SignatureAlgorithm)>>]

(***************************************************************************)
(* CreateCertificates                                                       *)
(***************************************************************************)
\* The one thing that goes wrong outside the program during a stage, if any:
\* the signer's PublicKey or CryptoSigner call, the template, the provider's
\* signature, the file; for the stages that call InitKMS, the kms.Get call.
StageFaults ==
    {"none", "PublicKey", "CryptoSigner", "Template", "ParseTemplate", "Sign",
     "create fails", "encode fails", "encode fails torn",
     "kms.Get error", "kms.Get nil", "kms.Get plain"}

\* what kms.Get answers under a fault
GetOutcome(fault) ==
    CASE fault = "kms.Get error" -> "error"
      [] fault = "kms.Get nil"   -> "nil"
      [] fault = "kms.Get plain" -> "plain"
      [] OTHER -> "crypto"

\* what the filesystem does under a fault
IOOutcome(fault) ==
    IF fault \in IOOutcomes THEN fault ELSE "ok"

\* PublicKey(), the CryptoSignerVerifier assertion and CryptoSigner() on the
\* signer of a stage: lines 154-167, 218-231, 284-297.  who is "" for the
\* root, whose messages do not name the stage
AcquireSigner(stage, who, sv, fault) ==
    IF fault = "PublicKey"
    THEN Wrapf("error getting " \o stage \o " public key: %w", ProviderError)
    ELSE IF ~sv.crypto
    THEN Errorf(who \o "signer does not implement CryptoSigner", "", <<>>)
    ELSE IF fault = "CryptoSigner"
    THEN Wrapf("error getting " \o stage \o " crypto signer: %w", ProviderError)
    ELSE Nil

StageReturn(err, cert, events, files, out) ==
    [err |-> err, cert |-> cert, calls |-> events, fs |-> files, out |-> out]

AlgCall(by, stage, key) ==
    [op |-> "ToSignatureAlgorithm", by |-> by, stage |-> stage, key |-> key]

CreateCall(by, stage, path) ==
    [op |-> "os.Create", by |-> by, stage |-> stage, path |-> path]

\* The template, signature algorithm, certificate and file of one stage:
\* lines 169-204 (root), 233-267 (intermediate), 299-333 (leaf).
\* parent is the nil certificate for the root, which is issued by its own
\* template; algSigner is the signer handed to ToSignatureAlgorithm, signer
\* the one handed to CreateCertificate.
IssueCertificate(stage, templatePath, parent, pub, algSigner, signer, certPath, commonName, keyType, files, fault) ==
    IF fault = "Template"
    THEN StageReturn(IF templatePath = ""
                     THEN Wrapf("error getting default " \o stage \o " template: %w",
                                TemplateError)
                     ELSE Wrapf(stage \o " template error: template not found at %s: %w",
                                OSError),
                     NilCert, <<>>, files, <<>>)
    ELSE IF fault = "ParseTemplate"
    THEN StageReturn(Wrapf("error parsing " \o stage \o " template: %w", TemplateError),
                     NilCert, <<>>, files, <<>>)
    ELSE
        LET tmpl    == ParseTemplate(stage, parent, pub, commonName)
            sigAlg  == ToSignatureAlgorithm(algSigner, keyType)
            algCall == <<AlgCall("main", stage, algSigner.key)>>
        IN  IF sigAlg = ""
            THEN StageReturn(Wrapf("error determining signature algorithm: %w", ProviderError),
                             NilCert, algCall, files, <<>>)
            ELSE
                LET issuer == IF parent.isNil
                              THEN [subject |-> tmpl.subject, pubKey |-> tmpl.pubKey]
                              ELSE IssuerOf(parent)
                    made   == CreateCertificate(stage,
                                                [tmpl EXCEPT !.SignatureAlgorithm = sigAlg],
                                                issuer, pub, signer, keyType, fault)
                IN  IF made.err # Nil
                    THEN StageReturn(Wrapf("error creating " \o stage \o " certificate: %w",
                                           made.err),
                                     NilCert, algCall \o made.calls, files, <<>>)
                    ELSE
                        LET w == WriteCertificateToFile(made.cert, certPath, files,
                                                        IOOutcome(fault))
                            events == algCall \o made.calls
                                      \o [i \in 1..Len(w.created) |->
                                             CreateCall("main", stage, w.created[i])]
                        IN  IF w.err # Nil
                            THEN StageReturn(Wrapf("error writing " \o stage
                                                   \o " certificate: %w", w.err),
                                             made.cert, events, w.fs, w.out)
                            ELSE StageReturn(Nil, made.cert, events, w.fs, w.out)

\* line 209 with the config's own field in place of the argument
HasIntermediate_fromConfig(cfg, intermediateKeyID) ==
    cfg.IntermediateKeyID # Empty

\* line 209: the intermediate stage runs iff the intermediateKeyID argument
\* is not empty
HasIntermediate(cfg, intermediateKeyID) ==
    intermediateKeyID # Empty

\* line 255: the signer the intermediate template's algorithm is computed from
IntermediateAlgSigner(intermediateSigner, rootSigner) ==
    intermediateSigner

\* lines 269-273 with the root signer kept as the key that signs the leaf
SigningPair_rootKey(hasIntermediate, rootCert, rootSigner, intermediateCert, intermediateSigner) ==
    IF hasIntermediate
    THEN [signingCert |-> intermediateCert, signingKey |-> rootSigner]
    ELSE [signingCert |-> rootCert, signingKey |-> rootSigner]

\* lines 269-273: the certificate and key that issue the leaf
SigningPair(hasIntermediate, rootCert, rootSigner, intermediateCert, intermediateSigner) ==
    IF hasIntermediate
    THEN [signingCert |-> intermediateCert, signingKey |-> intermediateSigner]
    ELSE [signingCert |-> rootCert, signingKey |-> rootSigner]

\* a call of InitKMS by CreateCertificates
InitKMSCall(by, stage, cfg) ==
    [op |-> "InitKMS", by |-> by, stage |-> stage, config |-> cfg]

NewLocals ==
    [stage |-> "", rootCert |-> NilCert, rootSigner |-> NoSigner,
     intermediateCert |-> NilCert, leafCert |-> NilCert,
     signingCert |-> NilCert, signingKey |-> NoSigner]

\* return err: the call is over
Return(err) ==
    /\ pc' = "done"
    /\ ret' = [sv |-> NoSigner, err |-> err]

\* lines 153-204: the root signer's key and capability, the root template,
\* the self-signed root certificate and its file
RootStage ==
    /\ pc = "root"
    /\ \E fault \in StageFaults \ {"kms.Get error", "kms.Get nil", "kms.Get plain"} :
          LET acquired == AcquireSigner("root", "", args.sv, fault)
              r == IssueCertificate("root", args.rootTemplatePath, NilCert, args.sv.key,
                                    args.sv, args.sv, args.rootCertPath,
                                    config.CommonName, kms, fs, fault)
          IN  IF acquired # Nil
              THEN /\ Return(acquired)
                   /\ locals' = [locals EXCEPT !.stage = "root"]
                   /\ UNCHANGED <<fs, stdout, calls>>
              ELSE /\ locals' = [locals EXCEPT !.stage = "root", !.rootCert = r.cert,
                                                !.rootSigner = args.sv]
                   /\ fs' = r.fs
                   /\ stdout' = stdout \o r.out
                   /\ calls' = calls \o r.calls
                   /\ IF r.err # Nil
                      THEN Return(r.err)
                      ELSE pc' = "branch" /\ UNCHANGED ret
    /\ UNCHANGED <<config, args, env, kms, threads>>

\* lines 209-270: a signer for intermediateKeyID from InitKMS, the
\* intermediate template, the certificate issued by the root and signed with
\* the root signer, its file; the pair becomes the one that issues the leaf
IntermediateStage ==
    /\ pc = "branch"
    /\ HasIntermediate(config, args.intermediateKeyID)
    /\ \E fault \in StageFaults :
          LET intermediateConfig == [config EXCEPT !.RootKeyID = args.intermediateKeyID]
              k == InitKMS(intermediateConfig, GetOutcome(fault))
              kcalls == <<InitKMSCall("main", "intermediate", intermediateConfig)>>
                        \o InitKMSCalls("main", k, env)
              acquired == AcquireSigner("intermediate", "intermediate ", k.sv, fault)
              r == IssueCertificate("intermediate", args.intermediateTemplatePath,
                                    locals.rootCert, k.sv.key,
                                    IntermediateAlgSigner(k.sv, locals.rootSigner),
                                    locals.rootSigner, args.intermediateCertPath,
                                    config.CommonName, kms, fs, fault)
              pair == SigningPair(TRUE, locals.rootCert, locals.rootSigner, r.cert, k.sv)
          IN  /\ env' = ApplySetenv(env, k.setenv)
              /\ IF k.err # Nil \/ acquired # Nil
                 THEN /\ Return(IF k.err # Nil
                                THEN Wrapf("error initializing intermediate KMS: %w", k.err)
                                ELSE acquired)
                      /\ locals' = [locals EXCEPT !.stage = "intermediate"]
                      /\ calls' = calls \o kcalls
                      /\ UNCHANGED <<fs, stdout>>
                 ELSE /\ fs' = r.fs
                      /\ stdout' = stdout \o r.out
                      /\ calls' = calls \o kcalls \o r.calls
                      /\ IF r.err # Nil
                         THEN /\ Return(r.err)
                              /\ locals' = [locals EXCEPT !.stage = "intermediate",
                                                           !.intermediateCert = r.cert]
                         ELSE /\ pc' = "leaf"
                              /\ locals' = [locals EXCEPT !.stage = "intermediate",
                                                           !.intermediateCert = r.cert,
                                                           !.signingCert = pair.signingCert,
                                                           !.signingKey = pair.signingKey]
                              /\ UNCHANGED ret
    /\ UNCHANGED <<config, args, kms, threads>>

\* lines 271-274: without an intermediate the root issues the leaf
SkipIntermediate ==
    /\ pc = "branch"
    /\ ~HasIntermediate(config, args.intermediateKeyID)
    /\ LET pair == SigningPair(FALSE, locals.rootCert, locals.rootSigner, NilCert, NoSigner)
       IN  locals' = [locals EXCEPT !.signingCert = pair.signingCert,
                                    !.signingKey = pair.signingKey]
    /\ pc' = "leaf"
    /\ UNCHANGED <<config, args, ret, env, fs, stdout, calls, kms, threads>>

\* lines 276-335: a signer for config.LeafKeyID from InitKMS, the leaf
\* template, the certificate issued by the signing certificate and signed
\* with the signing key, its file
LeafStage ==
    /\ pc = "leaf"
    /\ \E fault \in StageFaults :
          LET leafConfig == [config EXCEPT !.RootKeyID = config.LeafKeyID]
              k == InitKMS(leafConfig, GetOutcome(fault))
              kcalls == <<InitKMSCall("main", "leaf", leafConfig)>>
                        \o InitKMSCalls("main", k, env)
              acquired == AcquireSigner("leaf", "leaf ", k.sv, fault)
              r == IssueCertificate("leaf", args.leafTemplatePath, locals.signingCert,
                                    k.sv.key, locals.signingKey, locals.signingKey,
                                    args.leafCertPath, config.CommonName, kms, fs, fault)
          IN  /\ env' = ApplySetenv(env, k.setenv)
              /\ pc' = "done"
              /\ IF k.err # Nil \/ acquired # Nil
                 THEN /\ ret' = [sv |-> NoSigner,
                                 err |-> IF k.err # Nil
                                         THEN Wrapf("error initializing leaf KMS: %w", k.err)
                                         ELSE acquired]
                      /\ locals' = [locals EXCEPT !.stage = "leaf"]
                      /\ calls' = calls \o kcalls
                      /\ UNCHANGED <<fs, stdout>>
                 ELSE /\ ret' = [sv |-> NoSigner, err |-> r.err]
                      /\ locals' = [locals EXCEPT !.stage = "leaf", !.leafCert = r.cert]
                      /\ fs' = r.fs
                      /\ stdout' = stdout \o r.out
                      /\ calls' = calls \o kcalls \o r.calls
    /\ UNCHANGED <<config, args, kms, threads>>

(***************************************************************************)
(* Specification Spec: one call of CreateCertificates.                       *)
(***************************************************************************)
AWSOptions ==
    MakeOptions({<<"aws-region", region_us>>})

\* configs a caller can hand over: well-formed ones, with and without an
\* IntermediateKeyID of their own, and ones InitKMS must refuse
ChainConfigs ==
    { KMSConfig("awskms", aws_alias_r, Empty, aws_alias_l, AWSOptions),
      KMSConfig("awskms", aws_alias_r, aws_alias_i, aws_alias_l, AWSOptions),
      KMSConfig("awskms", aws_bare, Empty, aws_alias_l, AWSOptions),
      KMSConfig("awskms", aws_alias_r, Empty, aws_bare, AWSOptions),
      KMSConfig("awskms", aws_alias_r, Empty, Empty, AWSOptions),
      KMSConfig("awskms", aws_alias_r, aws_alias_empty, aws_alias_l, AWSOptions),
      KMSConfig("awskms", aws_alias_r, Empty, aws_alias_l, MakeOptions({})),
      KMSConfig("", aws_alias_r, Empty, aws_alias_l, AWSOptions),
      KMSConfig("pkcs11", aws_alias_r, Empty, aws_alias_l, AWSOptions) }

\* the intermediateKeyID argument: none, a well-formed one, a malformed one
IntermediateKeyIDs ==
    {Empty, aws_alias_i, aws_bare}

\* the root signer the caller got from InitKMS, with or without CryptoSigner
RootSigners ==
    {Signer(aws_alias_r, TRUE), Signer(aws_alias_r, FALSE)}

\* the keys the provider holds; the leaf key only gives its public key
ChainKeys ==
    {k \in [{aws_alias_r, aws_alias_i, aws_alias_l} -> KeyTypes] : k[aws_alias_l] = "ECDSA"}

\* output paths: pairwise distinct, or with one path given twice
OutputPaths ==
    { [root |-> "root.pem", intermediate |-> "intermediate.pem", leaf |-> "leaf.pem"],
      [root |-> "root.pem", intermediate |-> "intermediate.pem", leaf |-> "root.pem"],
      [root |-> "root.pem", intermediate |-> "leaf.pem", leaf |-> "leaf.pem"] }

\* template paths: the built-in defaults, or files
TemplatePaths ==
    { [root |-> "", intermediate |-> "", leaf |-> ""],
      [root |-> "root.json", intermediate |-> "intermediate.json", leaf |-> "leaf.json"] }

Init ==
    /\ config \in ChainConfigs
    /\ \E sv \in RootSigners, id \in IntermediateKeyIDs, out \in OutputPaths,
          tmpl \in TemplatePaths :
          args = [op |-> "create", sv |-> sv, intermediateKeyID |-> id,
                  rootTemplatePath |-> tmpl.root,
                  intermediateTemplatePath |-> tmpl.intermediate,
                  leafTemplatePath |-> tmpl.leaf,
                  rootCertPath |-> out.root, intermediateCertPath |-> out.intermediate,
                  leafCertPath |-> out.leaf]
    /\ pc = "root"
    /\ locals = NewLocals
    /\ ret = NoReturn
    /\ env = EmptyEnv
    /\ fs = [p \in Paths |-> Absent]
    /\ stdout = <<>>
    /\ calls = <<>>
    /\ kms \in ChainKeys
    /\ threads = NoThreads

Next ==
    \/ RootStage
    \/ IntermediateStage
    \/ SkipIntermediate
    \/ LeafStage

Spec ==
    Init /\ [][Next]_vars

(***************************************************************************)
(* Specification SpecConcurrent: InitKMS called from two goroutines of one   *)
(* process.  A call is its steps: ValidateKMSConfig, each os.Setenv, kms.Get; *)
(* the environment is the process's.  With args.serialized the callers take   *)
(* turns: a call starts only when no other call is under way.                *)
(***************************************************************************)
ThreadIds ==
    {"t1", "t2"}

\* the number of InitKMS calls made in a run, by both callers together
MaxCalls ==
    2

ConcurrentConfigs ==
    { KMSConfig("awskms", aws_alias_r, Empty, aws_alias_l,
                MakeOptions({<<"aws-region", region_us>>})),
      KMSConfig("awskms", aws_alias_r, Empty, aws_alias_l,
                MakeOptions({<<"aws-region", region_eu>>})),
      KMSConfig("hashivault", hv_full, Empty, hv_long,
                MakeOptions({<<"vault-token", token_a>>, <<"vault-address", addr_a>>})),
      KMSConfig("hashivault", hv_full, Empty, hv_long,
                MakeOptions({<<"vault-token", token_b>>, <<"vault-address", addr_b>>})),
      KMSConfig("gcpkms", gcp_full, Empty, gcp_full,
                MakeOptions({<<"gcp-credentials-file", creds_a>>})),
      KMSConfig("awskms", aws_alias_r, Empty, aws_alias_l, MakeOptions({})) }

InitConcurrent ==
    /\ config = NoConfig
    /\ \E serialized \in BOOLEAN : args = [op |-> "concurrent", serialized |-> serialized]
    /\ pc = "start"
    /\ locals = NoLocals
    /\ ret = NoReturn
    /\ env = EmptyEnv
    /\ fs = [p \in Paths |-> Absent]
    /\ stdout = <<>>
    /\ calls = <<>>
    /\ kms = NoKeys
    /\ threads \in [ThreadIds -> {[pc |-> "idle", config |-> c, todo |-> <<>>, err |-> Nil] :
                                     c \in ConcurrentConfigs}]

CallsBegun ==
    Cardinality(CallsOf("InitKMS"))

\* lines 62-65: a caller enters InitKMS and validates its config
BeginInitKMS(t) ==
    /\ threads[t].pc = "idle"
    /\ CallsBegun < MaxCalls
    /\ args.serialized => \A u \in ThreadIds : threads[u].pc = "idle"
    /\ LET cfg  == threads[t].config
           verr == ValidateKMSConfig(cfg)
       IN  /\ calls' = calls \o <<InitKMSCall(t, "", cfg)>>
           /\ threads' = [threads EXCEPT ![t] =
                 IF verr # Nil
                 THEN [@ EXCEPT !.err = Wrapf("invalid KMS configuration: %w", verr)]
                 ELSE [@ EXCEPT !.pc = "setenv", !.todo = InitKMSSetenv(cfg), !.err = Nil]]
    /\ UNCHANGED <<config, args, pc, locals, ret, env, fs, stdout, kms>>

\* one os.Setenv call of the caller's switch case
SetenvStep(t) ==
    /\ threads[t].pc = "setenv"
    /\ threads[t].todo # <<>>
    /\ LET name  == Head(threads[t].todo)[1]
           value == Head(threads[t].todo)[2]
       IN  /\ env' = [env EXCEPT ![name] = value]
           /\ calls' = calls \o <<SetenvCall(t, name, value)>>
    /\ threads' = [threads EXCEPT ![t].todo = Tail(@)]
    /\ UNCHANGED <<config, args, pc, locals, ret, fs, stdout, kms>>

\* the kms.Get call, which reads the environment as it is now, and the return
GetStep(t) ==
    /\ threads[t].pc = "setenv"
    /\ threads[t].todo = <<>>
    /\ \E outcome \in {"error", "crypto"} :
          LET r == InitKMSDispatch(threads[t].config, outcome)
          IN  /\ calls' = calls \o [i \in 1..Len(r.refs) |-> GetCall(t, r.refs[i], env)]
              /\ threads' = [threads EXCEPT ![t].pc = "idle", ![t].err = r.err]
    /\ UNCHANGED <<config, args, pc, locals, ret, env, fs, stdout, kms>>

NextConcurrent ==
    \E t \in ThreadIds :
        \/ BeginInitKMS(t)
        \/ SetenvStep(t)
        \/ GetStep(t)

SpecConcurrent ==
    InitConcurrent /\ [][NextConcurrent]_vars

(***************************************************************************)
(* Claims about ValidateKMSConfig and InitKMS (specification SpecValidate)   *)
(***************************************************************************)
RequiredOptions(type) ==
    CASE type = "awskms"     -> {"aws-region"}
      [] type = "gcpkms"     -> {"gcp-credentials-file"}
      [] type = "azurekms"   -> {"azure-tenant-id"}
      [] type = "hashivault" -> {"vault-token", "vault-address"}
      [] OTHER -> {}

OptionMissing(cfg) ==
    \E o \in RequiredOptions(cfg.Type) : Lookup(cfg.Options, o) = Empty

\* C4: when ValidateKMSConfig rejects the config, InitKMS returns a nil signer
\* and an error that wraps the validation error, hands no reference to the
\* provider (no kms.Get call) and sets no environment variable.
C4_InvalidConfigNoProviderCall ==
    (pc = "inited" /\ ValidateKMSConfig(config) # Nil) =>
        /\ ret.sv = NoSigner
        /\ ret.err # Nil
        /\ Head(ret.err).fmt = "invalid KMS configuration: %w"
        /\ Tail(ret.err) = ValidateKMSConfig(config)
        /\ CallsOf("kms.Get") = {}
        /\ CallsOf("Setenv") = {}
        /\ env = args.env0

\* a hashivault config with its token but without vault-address went through
\* InitKMS and was refused
C4_Witness ==
    /\ pc = "inited"
    /\ config.Type = "hashivault"
    /\ Lookup(config.Options, "vault-token") # Empty
    /\ Lookup(config.Options, "vault-address") = Empty
    /\ config.RootKeyID = hv_full
    /\ ret.err # Nil
    /\ env = StaleEnv

\* The key-identifier grammars as the claim words them.
GrammarAWS(keyID, region) ==
    \/ /\ HasPrefix(keyID, lit_arn_prefix)
       /\ Len(Split(keyID, lit_colon)) >= 6
       /\ Split(keyID, lit_colon)[4] = region
    \/ /\ HasPrefix(keyID, lit_alias_prefix)
       /\ Len(keyID) > Len(lit_alias_prefix)

GrammarGCP(keyID) ==
    \A c \in {lit_projects, lit_locations, lit_keyRings, lit_cryptoKeys,
              lit_cryptoKeyVersions} : Contains(keyID, c)

AzureName(keyID) ==
    Slice(keyID, Len(lit_azure_prefix), Index(keyID, lit_vault_sep))

AzureVault(keyID) ==
    SliceFrom(keyID, Index(keyID, lit_vault_sep) + Len(lit_vault_sep))

\* name and vault non-empty, read literally
GrammarAzureLiteral(keyID) ==
    /\ HasPrefix(keyID, lit_azure_prefix)
    /\ Contains(keyID, lit_vault_sep)
    /\ AzureName(keyID) # Empty
    /\ AzureVault(keyID) # Empty

\* name and vault hold something besides white space
GrammarAzureTrimmed(keyID) ==
    /\ HasPrefix(keyID, lit_azure_prefix)
    /\ Contains(keyID, lit_vault_sep)
    /\ \E i \in DOMAIN AzureName(keyID) : ~IsSpace(AzureName(keyID)[i])
    /\ \E i \in DOMAIN AzureVault(keyID) : ~IsSpace(AzureVault(keyID)[i])

GrammarHashiVault(keyID) ==
    LET parts == Split(keyID, lit_slash)
    IN  /\ Len(parts) >= 3
        /\ parts[1] = lit_transit
        /\ parts[2] = lit_keys
        /\ parts[3] # Empty

WellFormed(cfg, azureGrammar(_)) ==
    /\ cfg.Type \in KnownTypes
    /\ ~OptionMissing(cfg)
    /\ cfg.RootKeyID # Empty
    /\ cfg.LeafKeyID # Empty
    /\ \A keyID \in {cfg.RootKeyID, cfg.IntermediateKeyID, cfg.LeafKeyID} :
          keyID # Empty =>
             CASE cfg.Type = "awskms"     -> GrammarAWS(keyID, Lookup(cfg.Options, "aws-region"))
               [] cfg.Type = "gcpkms"     -> GrammarGCP(keyID)
               [] cfg.Type = "azurekms"   -> azureGrammar(keyID)
               [] cfg.Type = "hashivault" -> GrammarHashiVault(keyID)

\* C5 as stated: ValidateKMSConfig returns nil iff the type is known, the
\* required options are non-empty, RootKeyID and LeafKeyID are non-empty and
\* every non-empty key identifier satisfies the provider's grammar, the Azure
\* grammar asking for a non-empty name and a non-empty vault.
C5_Original ==
    pc = "validated" => (ret.err = Nil <=> WellFormed(config, GrammarAzureLiteral))

\* C5 as amended: the same, except that an Azure name or vault made of white
\* space only counts as empty (the code trims both before the test).
C5_ValidIffWellFormed ==
    pc = "validated" => (ret.err = Nil <=> WellFormed(config, GrammarAzureTrimmed))

\* an AWS ARN of another region than the configured one was refused
C5_Witness ==
    /\ pc = "validated"
    /\ config.Type = "awskms"
    /\ Lookup(config.Options, "aws-region") = region_us
    /\ config.RootKeyID = aws_alias_r
    /\ config.IntermediateKeyID = Empty
    /\ config.LeafKeyID = aws_arn_eu
    /\ ret.err # Nil
    /\ RootCause(ret.err).vals = <<region_eu, region_us>>

\* the error of one key identifier under the config's provider
KeyIDError(cfg, keyID, keyType) ==
    CASE cfg.Type = "awskms" ->
            validateAWSKeyID(keyID, keyType, Lookup(cfg.Options, "aws-region"))
      [] cfg.Type = "gcpkms"     -> validateGCPKeyID(keyID, keyType)
      [] cfg.Type = "azurekms"   -> validateAzureKeyID(keyID, keyType)
      [] cfg.Type = "hashivault" -> validateHashiVaultKeyID(keyID, keyType)

TypeErrors ==
    {"KMS type cannot be empty", "unsupported KMS type: %s"}

OptionErrors ==
    {"aws-region is required for AWS KMS",
     "gcp-credentials-file is required for GCP KMS",
     "options map is required for Azure KMS",
     "azure-tenant-id is required for Azure KMS",
     "options map is required for HashiVault KMS",
     "vault-token is required for HashiVault KMS",
     "vault-address is required for HashiVault KMS"}

\* C9: ValidateKMSConfig reports the first that applies of: a type error, a
\* missing required option, the grammar error of RootKeyID, of
\* IntermediateKeyID, of LeafKeyID, "RootKeyID must be specified",
\* "LeafKeyID must be specified"; and nil when none applies.
C9_ErrorPrecedence ==
    pc = "validated" =>
        LET err == ret.err
            fmt == IF err = Nil THEN "" ELSE Head(err).fmt
        IN  IF config.Type \notin KnownTypes THEN fmt \in TypeErrors
            ELSE IF OptionMissing(config) THEN fmt \in OptionErrors
            ELSE IF KeyIDError(config, config.RootKeyID, "RootKeyID") # Nil
                 THEN err = KeyIDError(config, config.RootKeyID, "RootKeyID")
            ELSE IF KeyIDError(config, config.IntermediateKeyID, "IntermediateKeyID") # Nil
                 THEN err = KeyIDError(config, config.IntermediateKeyID, "IntermediateKeyID")
            ELSE IF KeyIDError(config, config.LeafKeyID, "LeafKeyID") # Nil
                 THEN err = KeyIDError(config, config.LeafKeyID, "LeafKeyID")
            ELSE IF config.RootKeyID = Empty THEN fmt = "RootKeyID must be specified"
            ELSE IF config.LeafKeyID = Empty THEN fmt = "LeafKeyID must be specified"
            ELSE err = Nil

\* an empty RootKeyID with a malformed LeafKeyID got the error of LeafKeyID
C9_Witness ==
    /\ pc = "validated"
    /\ config.Type = "hashivault"
    /\ config.RootKeyID = Empty
    /\ config.IntermediateKeyID = Empty
    /\ config.LeafKeyID = hv_short
    /\ ret.err = Errorf("hashivault %s must be in format: transit/keys/keyname",
                        "LeafKeyID", <<>>)

(***************************************************************************)
(* Claim about WriteCertificateToFile (specification SpecWrite)              *)
(***************************************************************************)
\* C8: a call of WriteCertificateToFile with a nil certificate, or with one
\* whose Raw is empty, returns an error, leaves every file as it was (it
\* neither creates nor truncates the target) and prints no status line.
C8_NothingWrittenWithoutRaw ==
    (pc = "written" /\ (args.cert.isNil \/ Len(args.cert.Raw) = 0)) =>
        /\ ret.err # Nil
        /\ fs = args.fs0
        /\ stdout = args.stdout0

\* after a first call that saved a certificate, a call with an unencoded
\* certificate on the same, existing file was refused
C8_Witness ==
    /\ pc = "written"
    /\ args.n = 2
    /\ ~args.cert.isNil
    /\ Len(args.cert.Raw) = 0
    /\ args.fs0[args.filename].exists
    /\ Len(args.fs0[args.filename].blocks) = 1
    /\ Len(stdout) = 1
    /\ ret.err = Errorf("certificate has no raw data", "", <<>>)

(***************************************************************************)
(* Claims about CreateCertificates (specification Spec)                      *)
(***************************************************************************)
Succeeded ==
    pc = "done" /\ ret.err = Nil

Failed ==
    pc = "done" /\ ret.err # Nil

DistinctPaths ==
    Cardinality({args.rootCertPath, args.intermediateCertPath, args.leafCertPath}) = 3

PathOf(stage) ==
    CASE stage = "root"         -> args.rootCertPath
      [] stage = "intermediate" -> args.intermediateCertPath
      [] stage = "leaf"         -> args.leafCertPath

CertOf(stage) ==
    CASE stage = "root"         -> locals.rootCert
      [] stage = "intermediate" -> locals.intermediateCert
      [] stage = "leaf"         -> locals.leafCert

\* the stages the arguments ask for
ExpectedStages ==
    <<"root">>
    \o (IF args.intermediateKeyID # Empty THEN <<"intermediate">> ELSE <<>>)
    \o <<"leaf">>

ExistingFiles ==
    {p \in Paths : fs[p].exists}

\* the file holds exactly the PEM block of the certificate
Holds(path, cert) ==
    fs[path] = File(<<[Type |-> "CERTIFICATE", Bytes |-> cert.Raw]>>, FALSE)

\* C1: after a successful call the root is issued by itself and signed with
\* the root key; with an intermediateKeyID the intermediate is issued by the
\* root and signed with the root key and the leaf is issued by the
\* intermediate and signed with the intermediate key; without one the leaf is
\* issued by the root and signed with the root key.
C1_ChainRelations ==
    Succeeded =>
        LET root    == locals.rootCert
            inter   == locals.intermediateCert
            leaf    == locals.leafCert
            rootKey == args.sv.key
        IN  /\ root.issuer = IssuerOf(root)
            /\ root.signedBy = rootKey
            /\ CheckSignatureFrom(root, root)
            /\ IF args.intermediateKeyID # Empty
               THEN /\ inter.pubKey = args.intermediateKeyID
                    /\ inter.issuer = IssuerOf(root)
                    /\ inter.signedBy = rootKey
                    /\ CheckSignatureFrom(inter, root)
                    /\ leaf.issuer = IssuerOf(inter)
                    /\ leaf.signedBy = args.intermediateKeyID
                    /\ CheckSignatureFrom(leaf, inter)
               ELSE /\ leaf.issuer = IssuerOf(root)
                    /\ leaf.signedBy = rootKey
                    /\ CheckSignatureFrom(leaf, root)

\* a chain of three certificates was built and written to three files
C1_Witness ==
    /\ Succeeded
    /\ DistinctPaths
    /\ args.intermediateKeyID = aws_alias_i
    /\ Holds(args.rootCertPath, locals.rootCert)
    /\ Holds(args.intermediateCertPath, locals.intermediateCert)
    /\ Holds(args.leafCertPath, locals.leafCert)
    /\ locals.leafCert.signedBy = aws_alias_i
    /\ locals.intermediateCert.signedBy = aws_alias_r

\* C2: in every stage the signature algorithm of the template is computed
\* from the key that signs the stage's certificate: whenever a key signs in
\* a stage, the ToSignatureAlgorithm call of that stage was given that key.
C2_SigAlgFromSigningKey ==
    \A i \in CallsOf("Sign") :
        \A j \in CallsOf("ToSignatureAlgorithm") :
            calls[j].stage = calls[i].stage => calls[j].key = calls[i].key

\* C3: InitKMS is called for the intermediate stage only when the
\* intermediateKeyID argument is not empty; and with pairwise distinct
\* output paths a successful call has written the root and leaf files, and
\* the intermediate file iff that argument is not empty (two files or
\* three), whatever config.IntermediateKeyID is.
C3_IntermediateIffArgument ==
    LET wanted  == args.intermediateKeyID # Empty
        inited  == \E i \in CallsOf("InitKMS") : calls[i].stage = "intermediate"
        created == {calls[i].path : i \in CallsOf("os.Create")}
        files   == {args.rootCertPath, args.leafCertPath}
                   \cup (IF wanted THEN {args.intermediateCertPath} ELSE {})
    IN  /\ pc # "root" => (inited => wanted)
        /\ (Succeeded /\ DistinctPaths) =>
              /\ inited <=> wanted
              /\ created = files
              /\ ExistingFiles = files
              /\ Cardinality(CallsOf("os.Create")) = IF wanted THEN 3 ELSE 2
              /\ Cardinality(ExistingFiles) = IF wanted THEN 3 ELSE 2

\* a call without intermediateKeyID, on a config that has an
\* IntermediateKeyID of its own, wrote two files
C3_Witness ==
    /\ Succeeded
    /\ DistinctPaths
    /\ args.intermediateKeyID = Empty
    /\ config.IntermediateKeyID = aws_alias_i
    /\ ExistingFiles = {args.rootCertPath, args.leafCertPath}
    /\ ~fs[args.intermediateCertPath].exists

\* the error comes from ValidateKMSConfig, through InitKMS
IsConfigError(err) ==
    \E i \in DOMAIN err : err[i].fmt = "invalid KMS configuration: %w"

\* C6: when CreateCertificates returns a configuration error, no provider
\* signing call was made and no certificate file was written.
C6_ConfigErrorBeforeIO ==
    (pc = "done" /\ IsConfigError(ret.err)) =>
        /\ CallsOf("Sign") = {}
        /\ CallsOf("os.Create") = {}
        /\ ExistingFiles = {}

IsCreate(call) ==
    call.op = "os.Create"

\* the stages in front of the one the call failed in
StagesBefore(stage) ==
    {ExpectedStages[i] : i \in {i \in DOMAIN ExpectedStages :
                                   \E j \in DOMAIN ExpectedStages :
                                       i < j /\ ExpectedStages[j] = stage}}

StagesAfter(stage) ==
    {ExpectedStages[j] : j \in {j \in DOMAIN ExpectedStages :
                                   \E i \in DOMAIN ExpectedStages :
                                       i < j /\ ExpectedStages[i] = stage}}

\* C7 as stated, its last part: when the call fails at a stage, exactly the
\* files of the stages completed before it exist.
C7_Original ==
    (Failed /\ DistinctPaths) =>
        ExistingFiles = {PathOf(s) : s \in StagesBefore(locals.stage)}

\* C7 as amended.  Files are created in the order root, intermediate (only
\* with an intermediateKeyID), leaf, each at its own path; with pairwise
\* distinct paths the file of a completed stage holds that stage's
\* certificate from then on; and when the call fails at a stage the files of
\* the stages before it hold their certificates, the files of the stages
\* after it do not exist, and the file of the failing stage exists only if
\* os.Create had created it before pem.Encode failed, and then holds no
\* certificate.
C7_OrderedNoRollback ==
    LET creates == SelectSeq(calls, IsCreate)
        failing(s) == Failed /\ locals.stage = s
    IN  /\ Len(creates) <= Len(ExpectedStages)
        /\ \A i \in DOMAIN creates :
              /\ creates[i].stage = ExpectedStages[i]
              /\ creates[i].path = PathOf(ExpectedStages[i])
        /\ DistinctPaths =>
              \A i \in DOMAIN creates :
                  ~failing(creates[i].stage) =>
                      Holds(creates[i].path, CertOf(creates[i].stage))
        /\ (Failed /\ DistinctPaths) =>
              /\ \A s \in StagesBefore(locals.stage) : Holds(PathOf(s), CertOf(s))
              /\ \A s \in StagesAfter(locals.stage) : ~fs[PathOf(s)].exists
              /\ fs[PathOf(locals.stage)].exists
                    <=> \E i \in DOMAIN creates : creates[i].stage = locals.stage
              /\ fs[PathOf(locals.stage)].blocks = <<>>
              /\ ExistingFiles \subseteq {PathOf(ExpectedStages[i]) : i \in DOMAIN ExpectedStages}

\* the leaf stage of a three-stage call failed in pem.Encode: the root and
\* intermediate files are kept, the leaf file is there, torn
C7_Witness ==
    /\ Failed
    /\ DistinctPaths
    /\ locals.stage = "leaf"
    /\ args.intermediateKeyID = aws_alias_i
    /\ Holds(args.rootCertPath, locals.rootCert)
    /\ Holds(args.intermediateCertPath, locals.intermediateCert)
    /\ fs[args.leafCertPath] = File(<<>>, TRUE)
    /\ Head(ret.err).fmt = "error writing leaf certificate: %w"

(***************************************************************************)
(* Claim about concurrent InitKMS calls (specification SpecConcurrent)       *)
(***************************************************************************)
\* the environment variable each required option is written to
OptionVariable ==
    { <<"aws-region", "AWS_REGION">>,
      <<"gcp-credentials-file", "GCP_CREDENTIALS_FILE">>,
      <<"azure-tenant-id", "AZURE_TENANT_ID">>,
      <<"vault-token", "VAULT_TOKEN">>,
      <<"vault-address", "VAULT_ADDR">> }

\* the provider request saw, for each required option of its caller's
\* config, the value that config gives
ObservesOwn(call) ==
    LET cfg == threads[call.by].config
    IN  \A p \in OptionVariable :
            p[1] \in RequiredOptions(cfg.Type) => call.seen[p[2]] = Lookup(cfg.Options, p[1])

\* C10: when the InitKMS calls of a process take turns, every provider
\* request (kms.Get) sees the required option values of its own config.
\* (That calls which overlap can see each other's values is C10_Witness.)
C10_SerializedObservesOwn ==
    args.serialized => \A i \in CallsOf("kms.Get") : ObservesOwn(calls[i])

\* two overlapping calls for the same provider with different options: the
\* kms.Get of one saw a value that an os.Setenv of the other had written
C10_Witness ==
    /\ ~args.serialized
    /\ \E i \in CallsOf("kms.Get") :
          /\ ~ObservesOwn(calls[i])
          /\ \E u \in ThreadIds \ {calls[i].by} :
                /\ threads[u].config.Type = threads[calls[i].by].config.Type
                /\ \E j \in CallsOf("Setenv") :
                      /\ j < i
                      /\ calls[j].by = u
                      /\ calls[i].seen[calls[j].name] = calls[j].value
                      /\ calls[j].value
                            # Lookup(threads[calls[i].by].config.Options,
                                     (CHOOSE p \in OptionVariable : p[2] = calls[j].name)[1])
====
